---- MODULE Spec2Model ----
(***************************************************************************)
(* A model of graphovl.py: the lexical scan of one actor source file, the  *)
(* enum resolver and macro evaluator, the detection of the action-dispatch *)
(* idiom, the location of function bodies, and the construction of the     *)
(* call/transition graph handed to graphviz.                               *)
(*                                                                         *)
(* Text is modelled at the level of lexical pieces.  An identifier or a    *)
(* literal is a Token: the sequence of the pieces of its text between      *)
(* underscores, so "Foo_Init" is <<"Foo", "Init">> and "1" is <<"1">>.     *)
(* The source file is a sequence of physical lines, each holding at most   *)
(* one statement; the enum blocks and the #define lines of the file are    *)
(* kept beside the lines.                                                  *)
(***************************************************************************)
EXTENDS Integers, Sequences, FiniteSets, Bags, TLC

\* Integer literals -MaxLit..MaxLit occur as dispatch indexes and enum values.
MaxLit == 2
\* A statement occurs up to MaxRepeat times verbatim in one function body.
MaxRepeat == 2
\* An enum block holds up to MaxEnum members.
MaxEnum == 3

(***************************************************************************)
(* Tokens, and the conversions between integers and their text.            *)
(***************************************************************************)
NoTok == <<>>

\* The integers whose decimal text can arise in a run of the model.
IntRange == (0 - (2 * MaxLit + 2)) .. (2 * MaxLit + 2)

Ok(v) == [ok |-> TRUE, v |-> v]

Fail == [ok |-> FALSE, v |-> 0]

\* str(i)
StrOf(i) == <<ToString(i)>>

IsCanonical(tok) == Len(tok) = 1 /\ \E i \in IntRange : ToString(i) = tok[1]

CanonicalValue(tok) == CHOOSE i \in IntRange : ToString(i) = tok[1]

\* Spellings int(s) accepts besides those str() produces: leading zeros, a sign.
AltDecimal == ("00" :> 0) @@ ("01" :> 1) @@ ("+1" :> 1) @@ ("02" :> 2)

\* Spellings only int(s, 0) accepts: the other bases of C.
HexLiteral == ("0x0" :> 0) @@ ("0x1" :> 1) @@ ("0x2" :> 2)

\* int(s): base 10; ValueError is Fail.
IntOf(tok) ==
    IF Len(tok) # 1 THEN Fail
    ELSE IF IsCanonical(tok) THEN Ok(CanonicalValue(tok))
    ELSE IF tok[1] \in DOMAIN AltDecimal THEN Ok(AltDecimal[tok[1]])
    ELSE Fail

\* int(s, 0): C literal syntax, which refuses a leading zero on a nonzero number.
Int0Of(tok) ==
    IF Len(tok) # 1 THEN Fail
    ELSE IF IsCanonical(tok) THEN Ok(CanonicalValue(tok))
    ELSE IF tok[1] \in DOMAIN HexLiteral THEN Ok(HexLiteral[tok[1]])
    ELSE IF tok[1] = "00" THEN Ok(0)
    ELSE Fail

(***************************************************************************)
(* Enum resolver.  An enum block is the sequence of the fragments its text *)
(* splits into at commas; a fragment is a sequence of pieces: a block      *)
(* comment "bc", a line comment "lc" (up to the end of its line) or the    *)
(* member text "m" (name, and "= value" when has).  A fragment holds at    *)
(* most one member and at most one block comment.                          *)
(***************************************************************************)
Member(name) == [k |-> "m", name |-> name, has |-> FALSE, val |-> NoTok]

MemberEq(name, val) == [k |-> "m", name |-> name, has |-> TRUE, val |-> val]

BlockComment == [k |-> "bc", name |-> NoTok, has |-> FALSE, val |-> NoTok]

LineComment == [k |-> "lc", name |-> NoTok, has |-> FALSE, val |-> NoTok]

HasPiece(frag, kind) == \E i \in 1..Len(frag) : frag[i].k = kind

FirstPiece(frag, kind) == CHOOSE i \in 1..Len(frag) :
    frag[i].k = kind /\ \A j \in 1..(i - 1) : frag[j].k # kind

\* var = var[:start] + var[end:]
RemoveBlockComment(frag) ==
    IF HasPiece(frag, "bc")
    THEN LET i == FirstPiece(frag, "bc")
         IN SubSeq(frag, 1, i - 1) \o SubSeq(frag, i + 1, Len(frag))
    ELSE frag

\* var = var[:var.index("//")]
CutLineComment(frag) ==
    IF HasPiece(frag, "lc")
    THEN SubSeq(frag, 1, FirstPiece(frag, "lc") - 1)
    ELSE frag

CleanFragment(frag) == CutLineComment(RemoveBlockComment(frag))

\* EnumContainer.getDefault, applied to a token
EnumGetDefault(enums, tok) ==
    IF tok \in DOMAIN enums THEN StrOf(enums[tok]) ELSE tok

\* The loop over the fragments of one block, from fragment i on.
RECURSIVE EnumFragments(_, _, _, _)
EnumFragments(frags, i, enums, enumValue) ==
    IF i > Len(frags) THEN [ok |-> TRUE, enums |-> enums]
    ELSE LET var == CleanFragment(frags[i])
         IN IF Len(var) = 0 THEN EnumFragments(frags, i + 1, enums, enumValue)
            ELSE LET m == var[1]
                     parsed == IF m.has
                               THEN Int0Of(EnumGetDefault(enums, m.val))
                               ELSE Ok(enumValue)
                 IN IF ~parsed.ok THEN [ok |-> FALSE, enums |-> enums]
                    ELSE EnumFragments(frags, i + 1,
                                       (m.name :> parsed.v) @@ enums,
                                       parsed.v + 1)

\* EnumContainer.getEnums: every block restarts at 0, all share one namespace.
RECURSIVE EnumBlocks(_, _, _)
EnumBlocks(blocks, b, enums) ==
    IF b > Len(blocks) THEN [ok |-> TRUE, enums |-> enums]
    ELSE LET r == EnumFragments(blocks[b], 1, enums, 0)
         IN IF ~r.ok THEN r ELSE EnumBlocks(blocks, b + 1, r.enums)

NoEnums == [t \in {} |-> 0]

getEnums(blocks) == EnumBlocks(blocks, 1, NoEnums)

\* EnumContainer.get: None is Fail
EnumGet(enums, tok) ==
    IF tok \in DOMAIN enums THEN [ok |-> TRUE, tok |-> StrOf(enums[tok])]
    ELSE [ok |-> FALSE, tok |-> NoTok]

(***************************************************************************)
(* Macro evaluator.  A #define is a name, zero or one parameter (the       *)
(* pattern admits no comma in the parameter list) and a body; the bodies   *)
(* modelled are a literal k ("const"), the parameter itself ("param"),     *)
(* the parameter plus k ("plus") and an undefined identifier ("name").     *)
(***************************************************************************)
MacroDef(name, params, op, k) == [name |-> name, params |-> params, op |-> op, k |-> k]

\* MacrosContainer.getMacrosDefinitions: a later #define overwrites an earlier one.
RECURSIVE MacroTable(_, _, _)
MacroTable(defs, i, table) ==
    IF i > Len(defs) THEN table
    ELSE MacroTable(defs, i + 1, (defs[i].name :> defs[i]) @@ table)

NoMacros == [t \in {} |-> 0]

getMacrosDefinitions(defs) == MacroTable(defs, 1, NoMacros)

NoValue == [ok |-> FALSE, tok |-> NoTok]

Value(i) == [ok |-> TRUE, tok |-> StrOf(i)]

\* str(eval(body)) with the parameter, if any, replaced by the text of arg.
\* subst says whether the parameter was replaced.
EvalBody(macro, subst, arg) ==
    LET a == Int0Of(arg)
    IN CASE macro.op = "const" -> Value(macro.k)
         [] macro.op = "param" -> IF subst /\ a.ok THEN Value(a.v) ELSE NoValue
         [] macro.op = "plus" -> IF subst /\ a.ok THEN Value(a.v + macro.k) ELSE NoValue
         [] OTHER -> NoValue

\* Macro.callMacro with the one argument of the call
callMacro(macro, arg, enums) ==
    EvalBody(macro, Len(macro.params) > 0, EnumGetDefault(enums, arg))

\* Macro.simpleExpand
simpleExpand(macro) == EvalBody(macro, FALSE, NoTok)

\* An expression: an identifier or literal id, or the call id(arg).
Plain(tok) == [id |-> tok, call |-> FALSE, arg |-> NoTok]

MacroCall(tok, arg) == [id |-> tok, call |-> TRUE, arg |-> arg]

\* MacrosContainer.parseMacro
parseMacro(macros, expr, enums) ==
    IF expr.call
    THEN IF expr.id \notin DOMAIN macros THEN NoValue
         ELSE callMacro(macros[expr.id], expr.arg, enums)
    ELSE IF expr.id \in DOMAIN macros THEN simpleExpand(macros[expr.id])
    ELSE NoValue

(***************************************************************************)
(* Source lines.  k is the kind of the one statement a line holds:         *)
(*   "def"       void name(params) {          (args = <<params>>)          *)
(*   "defhead"   void name(params,            a signature wrapped over two *)
(*   "deftail"           tail) {              lines (args = <<tail>>)      *)
(*   "call"      name(args);                                               *)
(*   "assign"    lhs = rhs;                                                *)
(*   "arraydecl" <typ>ActionFunc name[] = { args }  followed by ; iff semi *)
(*   "arraycall" name[lhs](this, play);                                    *)
(*   "text"      anything else                                             *)
(* opens/closes count the braces before a "//" on the line, copens and     *)
(* ccloses those after it.                                                 *)
(***************************************************************************)
Text == [k |-> "text", name |-> NoTok, args |-> <<>>, semi |-> FALSE, lhs |-> "",
         rhs |-> Plain(NoTok), typ |-> "", opens |-> 0, closes |-> 0,
         copens |-> 0, ccloses |-> 0]

DefLine(name, params) ==
    [Text EXCEPT !.k = "def", !.name = name, !.args = <<params>>, !.opens = 1]

\* void name(params) { return; }
OneLineDef(name, params) == [DefLine(name, params) EXCEPT !.closes = 1]

DefHead(name, params) == [Text EXCEPT !.k = "defhead", !.name = name, !.args = <<params>>]

DefTail(tail) == [Text EXCEPT !.k = "deftail", !.args = <<tail>>, !.opens = 1]

CallLine(name, args) == [Text EXCEPT !.k = "call", !.name = name, !.args = args, !.semi = TRUE]

AssignLine(lhs, rhs) == [Text EXCEPT !.k = "assign", !.lhs = lhs, !.rhs = rhs]

ArrayDecl(typ, name, elems, closed) ==
    [Text EXCEPT !.k = "arraydecl", !.typ = typ, !.name = name, !.args = elems,
                 !.semi = closed, !.opens = 1, !.closes = 1]

ArrayCall(name, idx) == [Text EXCEPT !.k = "arraycall", !.name = name, !.lhs = idx]

\* if (cond) {
OpenLine == [Text EXCEPT !.opens = 1]

\* }
CloseLine == [Text EXCEPT !.closes = 1]

\* }  // closing if {
CloseCommentLine == [Text EXCEPT !.closes = 1, !.copens = 1]

\* // }
CommentCloseLine == [Text EXCEPT !.ccloses = 1]

(***************************************************************************)
(* Lexical extractor                                                       *)
(***************************************************************************)
\* The elements of seq in order, each kept at its first occurrence only.
RECURSIVE Dedup(_, _)
Dedup(seq, i) ==
    IF i > Len(seq) THEN <<>>
    ELSE (IF \E j \in 1..(i - 1) : seq[j] = seq[i] THEN <<>> ELSE <<seq[i]>>)
         \o Dedup(seq, i + 1)

Range(seq) == {seq[i] : i \in 1..Len(seq)}

IsDefStart(line) == line.k \in {"def", "defhead"}

\* capture_definition_names: the name before "(" of every match of func_defs_regexpr
capture_definition_names(lines) ==
    LET defs == SelectSeq(lines, IsDefStart)
    IN [i \in 1..Len(defs) |-> defs[i].name]

\* The text of a definition as definition_by_name returns it, reduced to what its
\* last line holds: the name and parameters, or the tail of a wrapped signature.
DefinitionAt(lines, i) ==
    IF lines[i].k = "def"
    THEN [wrapped |-> FALSE, name |-> lines[i].name, text |-> lines[i].args]
    ELSE [wrapped |-> TRUE, name |-> lines[i].name, text |-> lines[i + 1].args]

\* definition_by_name: the first definition of that name
definition_by_name(lines, name) ==
    LET i == CHOOSE i \in 1..Len(lines) :
                 /\ IsDefStart(lines[i]) /\ lines[i].name = name
                 /\ \A j \in 1..(i - 1) : ~(IsDefStart(lines[j]) /\ lines[j].name = name)
    IN DefinitionAt(lines, i)

\* setup_func_definitions
setup_func_definitions(lines, names) ==
    [i \in 1..Len(names) |-> definition_by_name(lines, names[i])]

\* list.index, 0-based as in the program; ValueError is Fail.
index_of_func(names, name) ==
    IF \E i \in 1..Len(names) : names[i] = name
    THEN Ok((CHOOSE i \in 1..Len(names) :
                names[i] = name /\ \A j \in 1..(i - 1) : names[j] # name) - 1)
    ELSE Fail

IsSuffix(a, b) ==
    Len(a) <= Len(b) /\ SubSeq(b, Len(b) - Len(a) + 1, Len(b)) = a

\* func_definitions[...].split("\n")[-1] in line
DefinitionInLine(def, line) ==
    IF def.wrapped
    THEN line.k = "deftail" /\ line.args = def.text
    ELSE line.k = "def" /\ IsSuffix(def.name, line.name) /\ line.args = def.text

RECURSIVE Repeat(_, _)
Repeat(x, n) == IF n <= 0 THEN <<>> ELSE <<x>> \o Repeat(x, n - 1)

\* setup_line_numbers: the line number is appended once for every function name
\* whose definition's last line occurs in the line, line by line.
RECURSIVE setup_line_numbers(_, _, _, _)
setup_line_numbers(lines, names, definitions, line_no) ==
    IF line_no > Len(lines) THEN <<>>
    ELSE LET hits == {j \in 1..Len(names) :
                        DefinitionInLine(definitions[index_of_func(names, names[j]).v + 1],
                                         lines[line_no])}
         IN Repeat(line_no, Cardinality(hits))
            \o setup_line_numbers(lines, names, definitions, line_no + 1)

(***************************************************************************)
(* Function body locator                                                   *)
(***************************************************************************)
\* raw_line[:raw_line.index("//")]
StripComment(line) == [line EXCEPT !.copens = 0, !.ccloses = 0]

\* raw_line.count("{") and raw_line.count("}") of the line as scanned
CountOpen(line) == line.opens + line.copens

CountClose(line) == line.closes + line.ccloses

\* The loop of get_code_body from (1-based) line i on.
RECURSIVE ScanBody(_, _, _)
ScanBody(lines, i, bracket_count) ==
    IF i > Len(lines) THEN <<>>
    ELSE LET raw_line == StripComment(lines[i])
             count == bracket_count + CountOpen(raw_line) - CountClose(raw_line)
         IN IF count = 0 THEN <<>>
            ELSE <<raw_line>> \o ScanBody(lines, i + 1, count)

\* get_code_body.  line_numbers_of_functions holds at least one entry per
\* function name, since every definition's last line occurs in the file.
get_code_body(lines, names, line_numbers, funcname) ==
    LET line_num == line_numbers[index_of_func(names, funcname).v + 1]
    IN IF line_num <= 0 THEN <<>> ELSE ScanBody(lines, line_num + 1, 1)

(***************************************************************************)
(* Scans of a function body.  A body is the sequence of its lines as       *)
(* get_code_body kept them.                                                *)
(***************************************************************************)
HasCallToken(line) ==
    \/ line.k \in {"call", "def", "defhead"}
    \/ line.k = "assign" /\ line.rhs.call

\* The match of func_call_regexpr a line holds: a call statement, the
\* name(params) of a definition, or a macro call on the right of an assignment.
CallToken(line) ==
    IF line.k = "assign"
    THEN [name |-> line.rhs.id, args |-> <<line.rhs.arg>>, semi |-> TRUE]
    ELSE [name |-> line.name, args |-> line.args, semi |-> line.semi]

\* capture_calls
capture_calls(body) ==
    LET lines == SelectSeq(body, HasCallToken)
    IN [i \in 1..Len(lines) |-> CallToken(lines[i])]

\* capture_call_names
capture_call_names(body) ==
    LET calls == capture_calls(body)
    IN [i \in 1..Len(calls) |-> calls[i].name]

\* name.endswith("_" + piece)
EndsWith(name, piece) == Len(name) >= 2 /\ name[Len(name)] = piece

\* ("_" + piece) in name
Contains(name, piece) == \E i \in 2..Len(name) : name[i] = piece

\* The calls a dispatch pattern (setupaction_regexpr, setaction_regexpr) matches.
DispatchCalls(body, piece) ==
    LET IsDispatch(c) == c.semi /\ EndsWith(c.name, piece)
    IN SelectSeq(capture_calls(body), IsDispatch)

\* The targets x.group().split(",")[pos - 1] of the dispatch calls; a call with
\* fewer arguments raises IndexError (ok = FALSE).
DispatchArgs(body, piece, pos) ==
    LET calls == DispatchCalls(body, piece)
    IN IF \E i \in 1..Len(calls) : Len(calls[i].args) < pos
       THEN [ok |-> FALSE, list |-> <<>>]
       ELSE [ok |-> TRUE, list |-> Dedup([i \in 1..Len(calls) |-> calls[i].args[pos]], 1)]

SetupActionArg == 2

SetActionArg == 3

\* capture_setupaction_call_arg
capture_setupaction_call_arg(body) == DispatchArgs(body, "SetupAction", SetupActionArg)

\* capture_setaction_call_arg
capture_setaction_call_arg(body) == DispatchArgs(body, "SetAction", SetActionArg)

\* The text of an expression that nothing resolved.
TextOf(expr) ==
    IF expr.call THEN expr.id \o <<"(">> \o expr.arg \o <<")">> ELSE expr.id

\* The resolution of one assigned expression in action_var_values_in_func:
\* the macro value, else the enum value, else the text as written.
ResolveIndex(expr, macros, enums) ==
    LET macroValue == parseMacro(macros, expr, enums)
        enumValue == IF expr.call THEN NoValue ELSE EnumGet(enums, expr.id)
    IN IF macroValue.ok THEN macroValue.tok
       ELSE IF enumValue.ok THEN enumValue.tok
       ELSE TextOf(expr)

\* action_var in code_body
Mentions(body, action_var) ==
    \E i \in 1..Len(body) :
        body[i].k \in {"assign", "arraycall"} /\ body[i].lhs = action_var

\* action_var_values_in_func
action_var_values_in_func(body, action_var, macros, enums) ==
    IF ~Mentions(body, action_var) THEN <<>>
    ELSE LET IsAssign(line) == line.k = "assign" /\ line.lhs = action_var
             assigns == SelectSeq(body, IsAssign)
         IN Dedup([i \in 1..Len(assigns) |->
                      ResolveIndex(assigns[i].rhs, macros, enums)], 1)

ActionIdentifier == "this->actionFunc"

\* getIndirectMemberFuncs
getIndirectMemberFuncs(body, names) ==
    {body[i].lhs : i \in {j \in 1..Len(body) :
        /\ body[j].k = "assign" /\ ~body[j].rhs.call
        /\ body[j].lhs # ActionIdentifier
        /\ body[j].rhs.id \in Range(names)}}

\* getIndirectFunctionsInFunc; the order of the result follows the iteration of
\* a set and is not kept.
getIndirectFunctionsInFunc(body, indirectMemberFuncs, macros, enums, removeList) ==
    {name \in UNION {Range(action_var_values_in_func(body, member, macros, enums)) :
                        member \in indirectMemberFuncs} :
        name \notin Range(removeList)}

\* The loop of main over transitionIndexes from i on (ArrayIndexed): an index
\* int() refuses is skipped, a negative one counts from the end of the list,
\* one past either end raises IndexError (ok = FALSE).
RECURSIVE ArrayTransitions(_, _, _)
ArrayTransitions(transitionIndexes, i, action_functions) ==
    IF i > Len(transitionIndexes) THEN [ok |-> TRUE, list |-> <<>>]
    ELSE LET indexTemp == IntOf(transitionIndexes[i])
             n == Len(action_functions)
             rest == ArrayTransitions(transitionIndexes, i + 1, action_functions)
         IN IF ~indexTemp.ok THEN rest
            ELSE IF indexTemp.v >= n \/ indexTemp.v < 0 - n
                 THEN [ok |-> FALSE, list |-> <<>>]
            ELSE IF ~rest.ok THEN rest
            ELSE [ok |-> TRUE,
                  list |-> <<action_functions[IF indexTemp.v >= 0
                                              THEN indexTemp.v + 1
                                              ELSE n + indexTemp.v + 1]>>
                           \o rest.list]

(***************************************************************************)
(* Graph builder.  dot is the graphviz Digraph: the set of its node        *)
(* statements (id, label) and the bag of its edge statements; an edge's    *)
(* category cat stands for the colour option it is drawn with.             *)
(***************************************************************************)
Node(id, label) == [id |-> id, label |-> label]

Edge(src, dst, cat) == [src |-> src, dst |-> dst, cat |-> cat]

EmptyDot == [nodes |-> {}, edges |-> EmptyBag]

AddNodes(dot, nodes) == [dot EXCEPT !.nodes = @ \cup nodes]

AddEdge(dot, edge) == [dot EXCEPT !.edges = @ (+) SetToBag({edge})]

\* addFunctionTransitionToGraph without its try/except around the lookup, the
\* lookup answering -1 for a name it does not find.
TransitionToAnyName(dot, names, index, func_name, action_transition) ==
    LET funcIndex == index_of_func(names, action_transition)
        target == IF funcIndex.ok THEN funcIndex.v ELSE 0 - 1
    IN AddEdge(AddNodes(dot, {Node(index, func_name), Node(target, action_transition)}),
               Edge(index, target, "transition"))

\* addFunctionTransitionToGraph
addFunctionTransitionToGraph(dot, names, index, func_name, action_transition) ==
    LET funcIndex == index_of_func(names, action_transition)
    IN IF ~funcIndex.ok THEN dot
       ELSE AddEdge(AddNodes(dot, {Node(index, func_name),
                                   Node(funcIndex.v, action_transition)}),
                    Edge(index, funcIndex.v, "transition"))

RECURSIVE AddTransitions(_, _, _, _, _, _)
AddTransitions(dot, names, index, func_name, transitionList, i) ==
    IF i > Len(transitionList) THEN dot
    ELSE AddTransitions(
             addFunctionTransitionToGraph(dot, names, index, func_name, transitionList[i]),
             names, index, func_name, transitionList, i + 1)

\* Whether addCallNamesToGraph skips a captured call name.
SkipsCall(call, names, removeList, setupAction) ==
    \/ call \notin Range(names)
    \/ call \in Range(removeList)
    \/ setupAction /\ (Contains(call, "SetupAction") \/ Contains(call, "SetAction"))

\* addCallNamesToGraph from call i on
RECURSIVE addCallNamesToGraph(_, _, _, _, _, _, _, _, _)
addCallNamesToGraph(dot, names, index, calls, i, seen, removeList, setupAction, rawActorFunc) ==
    IF i > Len(calls) THEN dot
    ELSE LET call == calls[i]
         IN IF call \in seen \/ SkipsCall(call, names, removeList, setupAction)
            THEN addCallNamesToGraph(dot, names, index, calls, i + 1, seen,
                                     removeList, setupAction, rawActorFunc)
            ELSE LET calledFuncIndex == index_of_func(names, call).v
                     own == IF rawActorFunc THEN {Node(index, names[index + 1])} ELSE {}
                     next == AddEdge(AddNodes(dot, own \cup {Node(calledFuncIndex, call)}),
                                     Edge(index, calledFuncIndex, "call"))
                 IN addCallNamesToGraph(next, names, index, calls, i + 1,
                                        seen \cup {call}, removeList, setupAction,
                                        rawActorFunc)

\* [x.strip() for x in arguments.split(",")]: the text after the first "(" of
\* the match, which still ends with the ")" of the call.
ArgumentList(args) ==
    IF Len(args) = 0 THEN << <<")">> >>
    ELSE [i \in 1..Len(args) |-> IF i = Len(args) THEN args[i] \o <<")">> ELSE args[i]]

\* The loop over func_names for one call of addCallbacksToGraph, from name j on.
RECURSIVE AddCallbacksOfCall(_, _, _, _, _, _)
AddCallbacksOfCall(dot, names, index, argumentList, transitionList, j) ==
    IF j > Len(names) THEN dot
    ELSE LET callback == names[j]
         IN IF callback \notin Range(argumentList) \/ callback \in Range(transitionList)
            THEN AddCallbacksOfCall(dot, names, index, argumentList, transitionList, j + 1)
            ELSE LET calledFuncIndex == index_of_func(names, callback).v
                     next == AddEdge(AddNodes(dot, {Node(calledFuncIndex, callback)}),
                                     Edge(index, calledFuncIndex, "callback"))
                 IN AddCallbacksOfCall(next, names, index, argumentList, transitionList,
                                       j + 1)

\* addCallbacksToGraph from call i on
RECURSIVE addCallbacksToGraph(_, _, _, _, _, _)
addCallbacksToGraph(dot, names, index, calls, i, transitionList) ==
    IF i > Len(calls) THEN dot
    ELSE addCallbacksToGraph(
             AddCallbacksOfCall(dot, names, index, ArgumentList(calls[i].args),
                                transitionList, 1),
             names, index, calls, i + 1, transitionList)

\* addIndirectFunctionsToGraph: each listed name that is a function, once
addIndirectFunctionsToGraph(dot, names, index, indirectFunctions) ==
    LET known == indirectFunctions \cap Range(names)
    IN [nodes |-> dot.nodes
                  \cup (IF known = {} THEN {} ELSE {Node(index, names[index + 1])})
                  \cup {Node(index_of_func(names, call).v, call) : call \in known},
        edges |-> dot.edges
                  (+) SetToBag({Edge(index, index_of_func(names, call).v, "indirectMember") :
                                   call \in known})]

(***************************************************************************)
(* main().  contents is the file read (its lines, enum blocks and          *)
(* #defines), removeList and loners the command line.  pc is the position  *)
(* in main: "start", "detect", "bodies", "build", "done" (graph written),  *)
(* "fatal" (os._exit(1)) or "crashed" (an uncaught exception).             *)
(* log records, for every function the build loop processed, the idiom     *)
(* branch taken and the transition list it produced before the removal     *)
(* list was applied.                                                       *)
(***************************************************************************)
VARIABLES contents, removeList, loners, pc,
          func_names, func_definitions, line_numbers_of_functions,
          macros, enums, func_prefix, dot,
          setupAction, setAction, arrayActorFunc, rawActorFunc,
          action_functions, action_var,
          functionBodies, indirectMemberFuncs, index, log

inputVars == <<contents, removeList, loners>>

scanVars == <<func_names, func_definitions, line_numbers_of_functions,
              macros, enums, func_prefix>>

detectVars == <<setupAction, setAction, arrayActorFunc, rawActorFunc,
                action_functions, action_var>>

bodyVars == <<functionBodies, indirectMemberFuncs>>

vars == <<inputVars, pc, scanVars, dot, detectVars, bodyVars, index, log>>

Lifecycle == {"Init", "Destroy", "Update", "Draw"}

\* The func_prefix loop of main: the first piece of the last name ending in _Init.
PrefixOf(names) ==
    LET inits == {i \in 1..Len(names) : EndsWith(names[i], "Init")}
    IN IF inits = {} THEN ""
       ELSE names[CHOOSE i \in inits : \A j \in inits : j <= i][1]

\* The nodes the same loop registers.
LifecycleNodes(names) ==
    {Node(i - 1, names[i]) : i \in {j \in 1..Len(names) :
        \E piece \in Lifecycle : EndsWith(names[j], piece)}}

\* func_names ... enums of main, up to the lifecycle nodes.
Scan ==
    /\ pc = "start"
    /\ getEnums(contents.enumBlocks).ok
    /\ func_names' = capture_definition_names(contents.lines)
    /\ func_definitions' = setup_func_definitions(contents.lines, func_names')
    /\ line_numbers_of_functions' =
           setup_line_numbers(contents.lines, func_names', func_definitions', 1)
    /\ macros' = getMacrosDefinitions(contents.macroDefs)
    /\ enums' = getEnums(contents.enumBlocks).enums
    /\ func_prefix' = PrefixOf(func_names')
    /\ dot' = AddNodes(dot, LifecycleNodes(func_names'))
    /\ pc' = "detect"
    /\ UNCHANGED <<inputVars, detectVars, bodyVars, index, log>>

\* int(valueExpr, 0) raises ValueError in getEnums.
ScanFails ==
    /\ pc = "start"
    /\ ~getEnums(contents.enumBlocks).ok
    /\ func_names' = capture_definition_names(contents.lines)
    /\ func_definitions' = setup_func_definitions(contents.lines, func_names')
    /\ line_numbers_of_functions' =
           setup_line_numbers(contents.lines, func_names', func_definitions', 1)
    /\ macros' = getMacrosDefinitions(contents.macroDefs)
    /\ pc' = "crashed"
    /\ UNCHANGED <<inputVars, enums, func_prefix, dot, detectVars, bodyVars, index, log>>

\* "<prefix>ActionFunc" occurs in the type name of the declaration
TypeMatches(prefix, typ) == prefix = "" \/ prefix = typ

\* The array declarations re.search can match: any of them (action_func_type +
\* " (.+)\[\] = {"), or only those whose initializer ends in "};".
ArrayDecls(lines, prefix, closedOnly) ==
    LET IsDecl(line) == /\ line.k = "arraydecl" /\ TypeMatches(prefix, line.typ)
                        /\ (closedOnly => line.semi)
    IN SelectSeq(lines, IsDecl)

\* The invocations name[index]( of the array
ArrayCalls(lines, name) ==
    LET IsCall(line) == line.k = "arraycall" /\ line.name = name
    IN SelectSeq(lines, IsCall)

\* actionIdentifier in contents
MentionsActionFunc(lines) == Mentions(lines, ActionIdentifier)

DetectSetupAction == <<func_prefix, "SetupAction">> \in Range(func_names)

DetectSetAction == <<func_prefix, "SetAction">> \in Range(func_names)

\* arrayActorFunc set only when the array is also invoked
DeclaredAndInvoked ==
    /\ ArrayDecls(contents.lines, func_prefix, FALSE) # <<>>
    /\ ArrayCalls(contents.lines, ArrayDecls(contents.lines, func_prefix, FALSE)[1].name) # <<>>

DetectArray == ArrayDecls(contents.lines, func_prefix, FALSE) # <<>>

DetectRaw == MentionsActionFunc(contents.lines)

\* Whether the block under "if arrayActorFunc:" finds what it searches for.
ArrayWellFormed ==
    /\ ArrayDecls(contents.lines, func_prefix, TRUE) # <<>>
    /\ ArrayCalls(contents.lines, ArrayDecls(contents.lines, func_prefix, FALSE)[1].name) # <<>>

\* The flags of main and, for an array, its functions and dispatch variable.
Detect ==
    /\ pc = "detect"
    /\ DetectSetupAction \/ DetectSetAction \/ DetectArray \/ DetectRaw
    /\ DetectArray => ArrayWellFormed
    /\ setupAction' = DetectSetupAction
    /\ setAction' = DetectSetAction
    /\ arrayActorFunc' = DetectArray
    /\ rawActorFunc' = DetectRaw
    /\ IF DetectArray
       THEN /\ action_functions' = ArrayDecls(contents.lines, func_prefix, TRUE)[1].args
            /\ action_var' = ArrayCalls(contents.lines,
                   ArrayDecls(contents.lines, func_prefix, FALSE)[1].name)[1].lhs
       ELSE UNCHANGED <<action_functions, action_var>>
    /\ pc' = "bodies"
    /\ UNCHANGED <<inputVars, scanVars, dot, bodyVars, index, log>>

\* "No actor action-based structure found": os._exit(1)
DetectNoIdiom ==
    /\ pc = "detect"
    /\ ~(DetectSetupAction \/ DetectSetAction \/ DetectArray \/ DetectRaw)
    /\ setupAction' = FALSE /\ setAction' = FALSE
    /\ arrayActorFunc' = FALSE /\ rawActorFunc' = FALSE
    /\ pc' = "fatal"
    /\ UNCHANGED <<inputVars, scanVars, dot, action_functions, action_var,
                   bodyVars, index, log>>

\* "Invalid array-based actor": os._exit(1)
DetectInvalidArray ==
    /\ pc = "detect"
    /\ DetectArray /\ ~ArrayWellFormed
    /\ setupAction' = DetectSetupAction
    /\ setAction' = DetectSetAction
    /\ arrayActorFunc' = TRUE
    /\ rawActorFunc' = DetectRaw
    /\ pc' = "fatal"
    /\ UNCHANGED <<inputVars, scanVars, dot, action_functions, action_var,
                   bodyVars, index, log>>

\* The first loop of main over func_names: the bodies, keyed by name, and the
\* members assigned a function anywhere.
LocateBodies ==
    /\ pc = "bodies"
    /\ functionBodies' = [name \in Range(func_names) |->
           get_code_body(contents.lines, func_names, line_numbers_of_functions, name)]
    /\ indirectMemberFuncs' = UNION {getIndirectMemberFuncs(functionBodies'[name], func_names) :
                                        name \in Range(func_names)}
    /\ index' = 0
    /\ pc' = "build"
    /\ UNCHANGED <<inputVars, scanVars, dot, detectVars, log>>

\* transitionList as the if/elif chain of the loop builds it, with the branch
\* taken; ok = FALSE is an IndexError.
Branch(idiom, found) == [ok |-> found.ok, list |-> found.list, idiom |-> idiom]

Transitions(body) ==
    IF setupAction THEN Branch("SetupAction", capture_setupaction_call_arg(body))
    ELSE IF setAction THEN Branch("SetAction", capture_setaction_call_arg(body))
    ELSE IF arrayActorFunc
         THEN Branch("ArrayIndexed",
                     ArrayTransitions(action_var_values_in_func(body, action_var, macros, enums),
                                      1, action_functions))
    ELSE IF rawActorFunc
         THEN Branch("RawFunctionPointer",
                     [ok |-> TRUE,
                      list |-> action_var_values_in_func(body, ActionIdentifier, macros, enums)])
    ELSE Branch("none", [ok |-> TRUE, list |-> <<>>])

NotRemoved(name) == name \notin Range(removeList)

\* One iteration of the second loop of main, for a function that is kept.
BuildFunction ==
    /\ pc = "build"
    /\ index < Len(func_names)
    /\ LET func_name == func_names[index + 1]
           code_body == functionBodies[func_name]
           found == Transitions(code_body)
           transitionList == SelectSeq(found.list, NotRemoved)
           calls == capture_calls(code_body)
           dot0 == IF loners THEN AddNodes(dot, {Node(index, func_name)}) ELSE dot
           dot1 == AddTransitions(dot0, func_names, index, func_name, transitionList, 1)
           dot2 == addCallNamesToGraph(dot1, func_names, index, capture_call_names(code_body),
                                       1, {}, removeList, setupAction, rawActorFunc)
           dot3 == addCallbacksToGraph(dot2, func_names, index, calls, 1, transitionList)
           indirectFunctions == getIndirectFunctionsInFunc(code_body, indirectMemberFuncs,
                                                           macros, enums, removeList)
       IN /\ NotRemoved(func_name)
          /\ found.ok
          /\ dot' = addIndirectFunctionsToGraph(dot3, func_names, index, indirectFunctions)
          /\ log' = Append(log, [index |-> index, idiom |-> found.idiom, list |-> found.list])
    /\ index' = index + 1
    /\ UNCHANGED <<inputVars, pc, scanVars, detectVars, bodyVars>>

\* "if func_name in removeList: continue"
SkipRemoved ==
    /\ pc = "build"
    /\ index < Len(func_names)
    /\ ~NotRemoved(func_names[index + 1])
    /\ index' = index + 1
    /\ UNCHANGED <<inputVars, pc, scanVars, dot, detectVars, bodyVars, log>>

\* An IndexError while the transitions of the function are extracted.
BuildFails ==
    /\ pc = "build"
    /\ index < Len(func_names)
    /\ NotRemoved(func_names[index + 1])
    /\ ~Transitions(functionBodies[func_names[index + 1]]).ok
    /\ dot' = IF loners THEN AddNodes(dot, {Node(index, func_names[index + 1])}) ELSE dot
    /\ pc' = "crashed"
    /\ UNCHANGED <<inputVars, scanVars, detectVars, bodyVars, index, log>>

\* dot.render(outname)
Render ==
    /\ pc = "build"
    /\ index = Len(func_names)
    /\ pc' = "done"
    /\ UNCHANGED <<inputVars, scanVars, dot, detectVars, bodyVars, index, log>>

Next ==
    \/ Scan
    \/ ScanFails
    \/ Detect
    \/ DetectNoIdiom
    \/ DetectInvalidArray
    \/ LocateBodies
    \/ BuildFunction
    \/ SkipRemoved
    \/ BuildFails
    \/ Render

(***************************************************************************)
(* The source files and command lines the model runs main() on.            *)
(***************************************************************************)
This == <<"this">>

Play == <<"play">>

Other == <<"x">>

NULL == <<"NULL">>

Params == <<"Actor* thisx, PlayState* play">>

FooInit == <<"Foo", "Init">>

FooUpdate == <<"Foo", "Update">>

FooWait == <<"Foo", "Wait">>

FooAttack == <<"Foo", "Attack">>

FooSetupAction == <<"Foo", "SetupAction">>

FooSetAction == <<"Foo", "SetAction">>

Wait == <<"Wait">>

LibFunc == <<"Math", "Rand">>

ActionVar == "this->actionVar"

MsgEventFunc == "this->msgEventFunc"

sActionFuncs == <<"sActionFuncs">>

\* void name(Actor* thisx, PlayState* play) { body }
Func(name, body) == <<DefLine(name, Params)>> \o body \o <<CloseLine>>

\* The same with the signature wrapped before its last parameter.
WrappedFunc(name, body) ==
    <<DefHead(name, <<"Actor* thisx,">>), DefTail(<<"PlayState* play">>)>>
    \o body \o <<CloseLine>>

\* void Foo_SetupAction(Foo* this, FooActionFunc actionFunc) { this->actionFunc = actionFunc; }
DispatchFunc(name) == Func(name, <<AssignLine(ActionIdentifier, Plain(<<"actionFunc">>))>>)

Input(lines, enumBlocks, macroDefs, remove, withLoners) ==
    [lines |-> lines, enumBlocks |-> enumBlocks, macroDefs |-> macroDefs,
     remove |-> remove, loners |-> withLoners]

\* Calls, callbacks, transitions and indirect members under the SetupAction,
\* SetAction and RawFunctionPointer idioms, with a removal list.
GraphStatements ==
    {CallLine(FooSetupAction, <<This, FooWait>>),
     CallLine(FooSetupAction, <<This, LibFunc>>),
     CallLine(FooSetupAction, <<This>>),
     CallLine(FooSetAction, <<Play, This, FooWait>>),
     CallLine(FooSetAction, <<Play, This>>),
     CallLine(FooWait, <<This>>),
     CallLine(LibFunc, <<This>>),
     CallLine(LibFunc, <<This, FooWait, Other>>),
     CallLine(LibFunc, <<FooAttack, This>>),
     CallLine(LibFunc, <<This, FooWait>>),
     AssignLine(ActionIdentifier, Plain(FooWait)),
     AssignLine(ActionIdentifier, Plain(LibFunc)),
     AssignLine(MsgEventFunc, Plain(FooAttack)),
     AssignLine(MsgEventFunc, Plain(LibFunc))}

GraphBodies ==
    {Repeat(s, r) \o tail :
        s \in GraphStatements, r \in 1..MaxRepeat,
        tail \in {<<>>} \cup {<<t>> : t \in GraphStatements}}

GraphDispatch ==
    {DispatchFunc(FooSetupAction), DispatchFunc(FooSetAction),
     Func(FooUpdate, <<AssignLine(ActionIdentifier, Plain(FooAttack))>>)}

GraphInputs ==
    {Input(dispatch \o Func(FooInit, body) \o Func(FooWait, <<>>) \o Func(FooAttack, <<>>),
           <<>>, <<>>, remove, withLoners) :
        dispatch \in GraphDispatch, body \in GraphBodies,
        remove \in {<<>>, <<FooWait>>, <<FooInit>>, <<FooAttack>>},
        withLoners \in BOOLEAN}

\* The ArrayIndexed idiom: indexes written as literals, enum members, macros;
\* an initializer that ends in ", }" has an empty last element.
ActionWait == <<"ACTION", "WAIT">>

ActionAttack == <<"ACTION", "ATTACK">>

Both == <<"BOTH">>

IdxOne == <<"IDX", "ONE">>

Idx == <<"IDX">>

NextIdx == <<"NEXT">>

ArrayEnums == << << <<Member(ActionWait)>>, <<Member(ActionAttack)>>, <<Member(Both)>> >> >>

ArrayMacros ==
    <<MacroDef(IdxOne, <<>>, "const", 1), MacroDef(Both, <<>>, "const", 0),
      MacroDef(Idx, <<"x">>, "param", 0), MacroDef(NextIdx, <<"x">>, "plus", 1)>>

IndexExprs ==
    {Plain(StrOf(i)) : i \in (0 - (MaxLit + 1)) .. (MaxLit + 1)}
    \cup {Plain(<<"01">>), Plain(<<"0x1">>), Plain(FooWait),
          Plain(ActionWait), Plain(ActionAttack), Plain(Both), Plain(IdxOne),
          MacroCall(Idx, ActionAttack), MacroCall(Idx, FooWait),
          MacroCall(NextIdx, <<"0">>), MacroCall(<<"UNKNOWN">>, <<"1">>)}

ArrayBodies ==
    {<<AssignLine(ActionVar, e)>> \o tail :
        e \in IndexExprs,
        tail \in {<<>>} \cup {<<AssignLine(ActionVar, f)>> : f \in IndexExprs}}

ArrayInputs ==
    {Input(<<ArrayDecl("Foo", sActionFuncs, elems, TRUE)>>
           \o Func(FooInit, body)
           \o Func(FooUpdate, <<ArrayCall(sActionFuncs, ActionVar)>>)
           \o Func(FooWait, <<>>) \o Func(FooAttack, <<>>),
           ArrayEnums, ArrayMacros, remove, FALSE) :
        elems \in {<<FooWait, FooAttack>>, <<FooWait, LibFunc, FooAttack>>,
                   <<FooWait, FooAttack, NoTok>>},
        body \in ArrayBodies,
        remove \in {<<>>, <<FooAttack>>}}

\* What decides the idiom: the Init function that gives the prefix, the
\* dispatch functions, the array declaration, its invocation, this->actionFunc.
DetectBody(raw) ==
    <<CallLine(FooSetupAction, <<This, FooWait>>),
      CallLine(FooSetAction, <<Play, This, FooAttack>>),
      AssignLine(ActionVar, Plain(<<"0">>))>>
    \o (IF raw THEN <<AssignLine(ActionIdentifier, Plain(FooInit))>> ELSE <<>>)

DetectInputs ==
    {Input(decl \o init \o dispatch
           \o Func(FooUpdate, invocation) \o Func(FooWait, DetectBody(raw))
           \o Func(FooAttack, <<>>),
           <<>>, <<>>, <<>>, FALSE) :
        init \in {<<>>, Func(FooInit, <<>>)},
        dispatch \in {<<>>, DispatchFunc(FooSetupAction), DispatchFunc(FooSetAction),
                      DispatchFunc(FooSetupAction) \o DispatchFunc(FooSetAction),
                      DispatchFunc(<<"", "SetupAction">>),
                      DispatchFunc(<<"Bar", "SetAction">>)},
        decl \in {<<>>,
                  <<ArrayDecl("Foo", sActionFuncs, <<FooUpdate, FooWait>>, TRUE)>>,
                  <<ArrayDecl("Foo", sActionFuncs, <<FooUpdate, FooWait>>, FALSE)>>,
                  <<ArrayDecl("Bar", sActionFuncs, <<FooUpdate, FooWait>>, TRUE)>>},
        invocation \in {<<>>, <<ArrayCall(sActionFuncs, ActionVar)>>},
        raw \in BOOLEAN}

\* How functions are laid out: plain, on one line, with a wrapped signature,
\* with nested blocks and braces inside comments, with a name that ends
\* another's, twice under the same name.
Marker(name) == CallLine(LibFunc, <<name, This>>)

LayoutBodies(name) ==
    {<<>>,
     <<Marker(name)>>,
     <<OpenLine, Marker(name), CloseLine>>,
     <<OpenLine, Marker(name), CloseCommentLine>>,
     <<CommentCloseLine, Marker(name)>>}

Layouts(name) ==
    {Func(name, body) : body \in LayoutBodies(name)}
    \cup {<<OneLineDef(name, Params)>>}
    \cup {WrappedFunc(name, body) : body \in {<<>>, <<Marker(name)>>}}

LayoutInputs ==
    {Input(f1 \o f2 \o f3 \o Func(FooUpdate, <<AssignLine(ActionIdentifier, Plain(FooWait))>>),
           <<>>, <<>>, <<>>, FALSE) :
        f1 \in Layouts(FooInit),
        f2 \in Layouts(FooWait) \cup Layouts(Wait),
        f3 \in Layouts(FooWait) \cup Layouts(Wait) \cup Layouts(FooAttack)}

\* Enum blocks: block and line comments around the members, explicit values,
\* aliases, values int(s, 0) refuses.
EnumName(i) == <<"E", ToString(i)>>

EnumMembers(i) ==
    {Member(EnumName(i)), MemberEq(EnumName(i), EnumName(1))}
    \cup (IF i <= 2 THEN {MemberEq(EnumName(i), <<"2">>)} ELSE {})
    \cup (IF i = 1 THEN {MemberEq(EnumName(i), <<"0x1">>), MemberEq(EnumName(i), <<"01">>)}
          ELSE {})

EnumFragmentsAt(i) ==
    {pre \o <<m>> : pre \in {<<>>, <<BlockComment>>, <<LineComment>>}, m \in EnumMembers(i)}

RECURSIVE EnumBlocksOf(_)
EnumBlocksOf(n) ==
    IF n = 0 THEN {<<>>}
    ELSE {Append(block, frag) : block \in EnumBlocksOf(n - 1), frag \in EnumFragmentsAt(n)}

EnumTexts ==
    {<<block>> : block \in UNION {EnumBlocksOf(n) : n \in 1..MaxEnum}}
    \cup {<<block, << <<Member(<<"F">>)>>, <<MemberEq(<<"G">>, EnumName(1))>>,
                      <<Member(<<"H">>)>>, <<>> >> >> : block \in EnumBlocksOf(1)}

EnumInputs ==
    {Input(Func(FooInit, <<AssignLine(ActionIdentifier, Plain(FooWait))>>)
           \o Func(FooWait, <<>>),
           blocks, <<>>, <<>>, FALSE) :
        blocks \in EnumTexts}

\* A function name passed as the first, a middle, the last or the only
\* argument of a call, beside an assignment that makes a name a transition
\* target.
CallbackStatements ==
    {CallLine(LibFunc, <<name>>) : name \in {FooWait, FooAttack}}
    \cup {CallLine(LibFunc, <<name, This>>) : name \in {FooWait, FooAttack}}
    \cup {CallLine(LibFunc, <<This, name, Other>>) : name \in {FooWait, FooAttack}}
    \cup {CallLine(LibFunc, <<This, name>>) : name \in {FooWait, FooAttack}}
    \cup {CallLine(LibFunc, <<This, Other>>)}

CallbackInputs ==
    {Input(Func(FooInit, <<AssignLine(ActionIdentifier, Plain(FooWait))>> \o first \o second)
           \o Func(FooWait, <<>>) \o Func(FooAttack, second),
           <<>>, <<>>, <<>>, withLoners) :
        first \in {<<s>> : s \in CallbackStatements},
        second \in {<<>>} \cup {<<s>> : s \in CallbackStatements},
        withLoners \in BOOLEAN}

Inputs ==
    GraphInputs \cup ArrayInputs \cup DetectInputs \cup LayoutInputs \cup EnumInputs
    \cup CallbackInputs

Init ==
    /\ \E in \in Inputs :
        /\ contents = [lines |-> in.lines, enumBlocks |-> in.enumBlocks,
                       macroDefs |-> in.macroDefs]
        /\ removeList = in.remove \o <<NULL>>
        /\ loners = in.loners
    /\ pc = "start"
    /\ func_names = <<>>
    /\ func_definitions = <<>>
    /\ line_numbers_of_functions = <<>>
    /\ macros = NoMacros
    /\ enums = NoEnums
    /\ func_prefix = ""
    /\ dot = EmptyDot
    /\ setupAction = FALSE
    /\ setAction = FALSE
    /\ arrayActorFunc = FALSE
    /\ rawActorFunc = FALSE
    /\ action_functions = <<>>
    /\ action_var = ""
    /\ functionBodies = <<>>
    /\ indirectMemberFuncs = {}
    /\ index = 0
    /\ log = <<>>

Spec == Init /\ [][Next]_vars

(***************************************************************************)
(* Properties                                                              *)
(***************************************************************************)
Emitted == BagToSet(dot.edges)

NameOf(id) == func_names[id + 1]

\* The names given with --remove
Removed == Range(removeList) \ {NULL}

Built == pc = "done"

\* C1: once the graph is built, no name of the removal list labels a node or
\* is the source or the destination of an edge of any category.
C1_RemovedNamesAbsent ==
    Built =>
        /\ \A n \in dot.nodes : n.label \notin Removed
        /\ \A e \in Emitted : NameOf(e.src) \notin Removed /\ NameOf(e.dst) \notin Removed

\* C2: the emitted graph never holds two edges with the same source,
\* destination and category.
C2_NoDuplicateEdges ==
    Built => \A e \in Emitted : CopiesIn(e, dot.edges) = 1

\* The build loop extracts transitions by the ArrayIndexed branch.
ArrayIdiom == arrayActorFunc /\ ~setupAction /\ ~setAction

\* The run ended: the graph was written or an exception ended main.
Finished == pc \in {"done", "crashed"}

\* The index an expression of IndexExprs stands for under ArrayMacros and
\* ArrayEnums, read off the C text: a decimal literal is its value; ACTION_WAIT
\* and ACTION_ATTACK are the enum members 0 and 1; BOTH is a macro (0) and an
\* enum member (2), the macro comes first; IDX_ONE is the macro 1; IDX(x) is x;
\* NEXT(x) is x + 1.  Anything else stands for no index.
ExpectedIndex(expr) ==
    CASE expr = Plain(ActionWait) -> Ok(0)
      [] expr = Plain(ActionAttack) -> Ok(1)
      [] expr = Plain(Both) -> Ok(0)
      [] expr = Plain(IdxOne) -> Ok(1)
      [] expr = MacroCall(Idx, ActionAttack) -> Ok(1)
      [] expr = MacroCall(NextIdx, <<"0">>) -> Ok(1)
      [] expr = Plain(<<"01">>) -> Ok(1)
      [] OTHER -> IF ~expr.call /\ IsCanonical(expr.id)
                  THEN Ok(CanonicalValue(expr.id)) ELSE Fail

\* The lines of function number f (from 0) that assign the dispatch variable.
DispatchAssignments(f) ==
    LET body == functionBodies[NameOf(f)]
    IN {body[j].rhs : j \in {i \in 1..Len(body) :
                               body[i].k = "assign" /\ body[i].lhs = action_var}}

InRange(i) == i.ok /\ i.v \in 0..(Len(action_functions) - 1)

IsFunctionId(id) == id \in 0..(Len(func_names) - 1)

\* What ends the build loop in function number f with an exception: a dispatch
\* call with too few arguments or, under ArrayIndexed, an integer index beyond
\* both ends of the action-function list.
AbortCause(f) ==
    LET body == functionBodies[NameOf(f)]
        Short(piece, n) ==
            \E i \in 1..Len(body) :
                /\ body[i].k = "call" /\ body[i].semi
                /\ body[i].name # <<>> /\ body[i].name[Len(body[i].name)] = piece
                /\ Len(body[i].args) < n
    IN \/ setupAction /\ Short("SetupAction", 2)
       \/ ~setupAction /\ setAction /\ Short("SetAction", 3)
       \/ /\ ArrayIdiom
          /\ \E expr \in DispatchAssignments(f) :
                LET i == ExpectedIndex(expr)
                IN i.ok /\ i.v \notin (0 - Len(action_functions))..(Len(action_functions) - 1)

\* C3: every edge ends at a node registered under the name of a known function
\* and every node is a known function under its own index; a target, called
\* name, callback or member value that is no known function leaves nothing,
\* and no run is ended by an exception for such a name.
C3_EdgesEndAtKnownFunctions ==
    /\ \A n \in dot.nodes : IsFunctionId(n.id) /\ NameOf(n.id) = n.label
    /\ \A e \in Emitted :
          /\ IsFunctionId(e.src) /\ IsFunctionId(e.dst)
          /\ Node(e.dst, NameOf(e.dst)) \in dot.nodes
    /\ pc = "crashed" /\ DOMAIN functionBodies # {} => AbortCause(index)

\* A run that wrote its graph after it met a transition target that is no
\* function, in a function that also got an edge.
C3_Witness ==
    /\ Built
    /\ \E k \in 1..Len(log) :
          /\ \E t \in Range(log[k].list) : t \notin Range(func_names)
          /\ \E e \in Emitted : e.src = log[k].index

\* Every in-range assignment of function f left its transition in the graph,
\* unless the target is removed or is no function of the file.
IndexedTransitionsOf(f) ==
    \A expr \in DispatchAssignments(f) :
        LET i == ExpectedIndex(expr)
        IN InRange(i) =>
              LET target == action_functions[i.v + 1]
              IN target \in Range(func_names) /\ target \notin Removed
                    => \E e \in Emitted : /\ e.src = f /\ e.cat = "transition"
                                          /\ NameOf(e.dst) = target

\* C4: under the ArrayIndexed idiom, when the run has ended, every function
\* that assigns the dispatch variable an expression which resolves (macro
\* first, then enum member, then the text itself) to an index i within the
\* action-function list has a transition to the i-th name of the list.
C4_IndexedTransitions ==
    Finished /\ ArrayIdiom =>
        \A f \in 0..(Len(func_names) - 1) :
            NotRemoved(NameOf(f)) => IndexedTransitionsOf(f)

\* The same for the runs that wrote their graph.
IndexedTransitionsWhenBuilt ==
    Built /\ ArrayIdiom =>
        \A f \in 0..(Len(func_names) - 1) :
            NotRemoved(NameOf(f)) => IndexedTransitionsOf(f)

\* C5: under the ArrayIndexed idiom an assignment whose index is no integer or
\* lies outside 0..len(action_functions)-1 is skipped: the run is not ended by
\* an exception, and every transition edge of a function comes from an
\* assignment of that function whose index is in range.
C5_BadIndexSkipped ==
    ArrayIdiom =>
        /\ pc # "crashed"
        /\ \A e \in Emitted :
              e.cat = "transition" =>
                  \E expr \in DispatchAssignments(e.src) :
                      /\ InRange(ExpectedIndex(expr))
                      /\ action_functions[ExpectedIndex(expr).v + 1] = NameOf(e.dst)

HasFunction(name) == \E i \in 1..Len(func_names) : func_names[i] = name

\* The four conditions of idiom detection, read off the file.
SetupActionHolds == HasFunction(<<func_prefix, "SetupAction">>)

SetActionHolds == HasFunction(<<func_prefix, "SetAction">>)

\* The lines holding "<prefix>ActionFunc name[] = {"
Declarations ==
    {i \in 1..Len(contents.lines) :
        /\ contents.lines[i].k = "arraydecl"
        /\ func_prefix \in {"", contents.lines[i].typ}}

Declared == Declarations # {}

\* A declaration's initializer ends in "};"
Initialized == \E i \in Declarations : contents.lines[i].semi

\* name[indexExpr]( occurs in the file
Invoked ==
    \E i \in Declarations : \E j \in 1..Len(contents.lines) :
        /\ contents.lines[j].k = "arraycall"
        /\ contents.lines[j].name = contents.lines[i].name

RawHolds ==
    \E i \in 1..Len(contents.lines) :
        /\ contents.lines[i].k \in {"assign", "arraycall"}
        /\ contents.lines[i].lhs = "this->actionFunc"

\* The first idiom in priority order, given the condition of ArrayIndexed.
FirstIdiom(arrayHolds) ==
    IF SetupActionHolds THEN "SetupAction"
    ELSE IF SetActionHolds THEN "SetAction"
    ELSE IF arrayHolds THEN "ArrayIndexed"
    ELSE IF RawHolds THEN "RawFunctionPointer"
    ELSE "none"

AfterDetection == pc \in {"bodies", "build", "done"}

\* C6 as stated: ArrayIndexed holds when the array is declared with its
\* initializer and invoked; every function is extracted with the first idiom
\* whose condition holds, and the run is fatal only when none holds.
C6_FatalOnlyWithoutIdiom ==
    LET idiom == FirstIdiom(Declared /\ Initialized /\ Invoked)
    IN /\ pc = "fatal" => idiom = "none"
       /\ AfterDetection => idiom # "none"
       /\ \A k \in 1..Len(log) : log[k].idiom = idiom

\* C6, amended: ArrayIndexed holds when the array is declared; every function is
\* extracted with the first idiom whose condition holds; the run is fatal
\* exactly when no condition holds or the declared array lacks its "};"
\* initializer or its invocation, whichever idiom comes first.
C6_IdiomSelection ==
    LET idiom == FirstIdiom(Declared)
        malformed == Declared /\ ~(Initialized /\ Invoked)
    IN /\ pc = "fatal" => idiom = "none" \/ malformed
       /\ AfterDetection => idiom # "none" /\ ~malformed
       /\ \A k \in 1..Len(log) : log[k].idiom = idiom

\* A fatal end although this->actionFunc occurs in the file: the array is
\* declared and never invoked.
C6_Witness ==
    /\ pc = "fatal"
    /\ RawHolds /\ Declared /\ Initialized /\ ~Invoked

\* The value C gives a literal of the enum inputs.
LiteralValue(tok) ==
    CASE tok = <<"2">> -> 2
      [] tok = <<"0x1">> -> 1
      [] OTHER -> 0

IsLiteral(tok) == tok \in {<<"2">>, <<"0x1">>}

\* The members of the enum blocks from fragment i of block b on, with the
\* value C gives each: one more than the member before it (0 for the first of
\* a block), or its explicit value, a literal or an earlier member.  known
\* holds the members met so far.
RECURSIVE ExpectedEnums(_, _, _, _, _)
ExpectedEnums(blocks, b, i, known, next) ==
    IF b > Len(blocks) THEN known
    ELSE IF i > Len(blocks[b]) THEN ExpectedEnums(blocks, b + 1, 1, known, 0)
    ELSE IF ~HasPiece(blocks[b][i], "m") THEN ExpectedEnums(blocks, b, i + 1, known, next)
    ELSE LET m == blocks[b][i][FirstPiece(blocks[b][i], "m")]
             v == IF ~m.has THEN next
                  ELSE IF m.val \in DOMAIN known THEN known[m.val]
                  ELSE LiteralValue(m.val)
         IN ExpectedEnums(blocks, b, i + 1, (m.name :> v) @@ known, v + 1)

\* Every explicit value of the blocks is a decimal or hexadecimal literal or an
\* earlier member.
RECURSIVE ValuesDefined(_, _, _, _)
ValuesDefined(blocks, b, i, known) ==
    IF b > Len(blocks) THEN TRUE
    ELSE IF i > Len(blocks[b]) THEN ValuesDefined(blocks, b + 1, 1, known)
    ELSE IF ~HasPiece(blocks[b][i], "m") THEN ValuesDefined(blocks, b, i + 1, known)
    ELSE LET m == blocks[b][i][FirstPiece(blocks[b][i], "m")]
         IN /\ m.has => IsLiteral(m.val) \/ m.val \in known
            /\ ValuesDefined(blocks, b, i + 1, known \cup {m.name})

EnumsAsInC ==
    LET expected == ExpectedEnums(contents.enumBlocks, 1, 1, NoEnums, 0)
    IN \A name \in DOMAIN expected :
          name \in DOMAIN enums /\ enums[name] = expected[name]

\* C7: once the file is scanned, every member of an enum block has the value
\* of the member before it plus one (0 for the first), or the value of the
\* earlier member its explicit value names.
C7_EnumValues ==
    pc # "start" /\ ValuesDefined(contents.enumBlocks, 1, 1, {}) => EnumsAsInC

HasLineComment ==
    \E b \in 1..Len(contents.enumBlocks) : \E i \in 1..Len(contents.enumBlocks[b]) :
        HasPiece(contents.enumBlocks[b][i], "lc")

\* The same for the blocks without "//" comments.
EnumValuesWithoutLineComments ==
    /\ pc # "start" /\ ValuesDefined(contents.enumBlocks, 1, 1, {})
    /\ ~HasLineComment
    => EnumsAsInC

\* C8: the function-name list holds each name once, a lookup by name gives the
\* index the function is iterated under, and a function has the same node id as
\* the source and as the destination of edges.
C8_NamesUnique ==
    /\ \A i, j \in 1..Len(func_names) : func_names[i] = func_names[j] => i = j
    /\ \A i \in 1..Len(func_names) : index_of_func(func_names, func_names[i]) = Ok(i - 1)
    /\ \A e1, e2 \in Emitted : NameOf(e1.src) = NameOf(e2.dst) => e1.src = e2.dst

DefinedOnce(name) ==
    Cardinality({i \in 1..Len(contents.lines) :
                    IsDefStart(contents.lines[i]) /\ contents.lines[i].name = name}) = 1

\* The line that holds the opening brace of the definition of name.
OpeningLine(name) ==
    LET i == CHOOSE i \in 1..Len(contents.lines) :
                 IsDefStart(contents.lines[i]) /\ contents.lines[i].name = name
    IN IF contents.lines[i].k = "def" THEN i ELSE i + 1

\* The lines from i on up to the one where the braces outside comments balance.
RECURSIVE Balanced(_, _)
Balanced(i, depth) ==
    IF i > Len(contents.lines) THEN <<>>
    ELSE LET d == depth + contents.lines[i].opens - contents.lines[i].closes
         IN IF d = 0 THEN <<>>
            ELSE <<[contents.lines[i] EXCEPT !.copens = 0, !.ccloses = 0]>>
                 \o Balanced(i + 1, d)

\* The text after the opening brace of name up to its matching closing brace.
OwnBody(name) ==
    LET o == OpeningLine(name)
        d == contents.lines[o].opens - contents.lines[o].closes
    IN IF d = 0 THEN <<>> ELSE Balanced(o + 1, d)

\* C9: the body located for a function is the text between its own opening
\* brace and the matching closing brace, braces in "//" comments not counted.
C9_OwnBody ==
    pc \in {"build", "done"} =>
        \A name \in Range(func_names) :
            DefinedOnce(name) => functionBodies[name] = OwnBody(name)

IsDispatchName(name) ==
    name \in {<<func_prefix, "SetupAction">>, <<func_prefix, "SetAction">>}

\* C10: unless the idiom is ArrayIndexed no call edge ends at a dispatch
\* function; every other call-name token of a processed function that names a
\* known function outside the removal list has exactly one call edge.
C10_CallEdges ==
    /\ ~ArrayIdiom =>
          \A e \in Emitted : e.cat = "call" => ~IsDispatchName(NameOf(e.dst))
    /\ \A k \in 1..Len(log) :
          \A call \in Range(capture_call_names(functionBodies[NameOf(log[k].index)])) :
              /\ call \in Range(func_names) /\ call \notin Range(removeList)
              /\ ArrayIdiom \/ ~IsDispatchName(call)
              => CopiesIn(Edge(log[k].index, index_of_func(func_names, call).v, "call"),
                          dot.edges) = 1

\* The function names passed as an argument of a call statement of function
\* number f.
CallbackArguments(f) ==
    LET body == functionBodies[NameOf(f)]
    IN UNION {Range(body[i].args) : i \in {j \in 1..Len(body) : body[j].k = "call"}}
       \cap Range(func_names)

HasEdge(f, cat, name) ==
    \E e \in Emitted : e.src = f /\ e.cat = cat /\ NameOf(e.dst) = name

\* C11: a processed function has a callback edge to every function name that
\* is an argument of one of its calls, at whatever position, unless the name
\* is a transition target of the function; then it has none.
C11_CallbackAtEveryPosition ==
    \A k \in 1..Len(log) :
        \A name \in CallbackArguments(log[k].index) \ Removed :
            HasEdge(log[k].index, "callback", name)
                <=> ~HasEdge(log[k].index, "transition", name)

\* The function names passed before the last argument of a call statement of
\* function number f.
EarlierArguments(f) ==
    LET body == functionBodies[NameOf(f)]
    IN UNION {Range(SubSeq(body[i].args, 1, Len(body[i].args) - 1)) :
                 i \in {j \in 1..Len(body) : body[j].k = "call"}}
       \cap Range(func_names)

\* The same for the arguments that are not the last of their call.
CallbackBeforeLastPosition ==
    \A k \in 1..Len(log) :
        \A name \in EarlierArguments(log[k].index) \ Removed :
            HasEdge(log[k].index, "callback", name)
                <=> ~HasEdge(log[k].index, "transition", name)

\* Function number id is a node under its own index and name.
Registered(id) == [id |-> id, label |-> NameOf(id)] \in dot.nodes

IsLifecycle(name) == \E piece \in Lifecycle : EndsWith(name, piece)

\* C12: when the graph is built, both ends of every emitted edge are nodes
\* under their function index and name; so is every lifecycle function, and
\* with the loners option every function that is not removed.
C12_EndpointsRegistered ==
    Built =>
        /\ \A e \in Emitted :
               /\ IsFunctionId(e.src) /\ Registered(e.src)
               /\ IsFunctionId(e.dst) /\ Registered(e.dst)
        /\ \A id \in 0..(Len(func_names) - 1) :
               /\ IsLifecycle(NameOf(id)) => Registered(id)
               /\ loners /\ NameOf(id) \notin Removed => Registered(id)

\* The same without the sources of the edges.
DestinationsRegistered ==
    Built =>
        /\ \A e \in Emitted : IsFunctionId(e.dst) /\ Registered(e.dst)
        /\ \A id \in 0..(Len(func_names) - 1) :
               /\ IsLifecycle(NameOf(id)) => Registered(id)
               /\ loners /\ NameOf(id) \notin Removed => Registered(id)

====
